---- MODULE Spec2Model ----
(***************************************************************************)
(* Model of twitter/extract_twitter_archive.py: main() locating the        *)
(* records file, load_twitter_js(), the aggregation loop of                *)
(* process_tweets(), the report it builds and the write of the output.     *)
(*                                                                         *)
(* Strings are sequences of one-character strings, so that prefix tests,   *)
(* lowercasing, substring tests, replacement and URL splitting are         *)
(* computed character by character as the Python code computes them.       *)
(***************************************************************************)
EXTENDS Integers, Sequences, FiniteSets, TLC

(***************************************************************************)
(* Bounds of the model and constants of the program.                       *)
(***************************************************************************)
\* longest list of records enumerated exhaustively over SmallTweets
MaxTweets == 3
\* number of hashtags of the record that carries many distinct hashtags
NumManyTags == 51
\* length of the long record lists (more records than a top list keeps)
LongLen == 21
\* most_common(50) of the global counters
TopCounterN == 50
\* most_common(20) of the per-year counters and of the languages
TopYearN == 20
\* [:20] of the sorted record projections
TopTweetsN == 20
\* [:200] of the stored text
TextLimit == 200

(***************************************************************************)
(* Python str operations on character sequences.                           *)
(***************************************************************************)
Min(a, b) == IF a <= b THEN a ELSE b

UpperChars == <<"A", "B", "C", "D", "E", "F", "G", "H", "I", "J", "K", "L", "M",
                "N", "O", "P", "Q", "R", "S", "T", "U", "V", "W", "X", "Y", "Z">>

LowerChars == <<"a", "b", "c", "d", "e", "f", "g", "h", "i", "j", "k", "l", "m",
                "n", "o", "p", "q", "r", "s", "t", "u", "v", "w", "x", "y", "z">>

\* str.lower() of one character
lower_char(c) ==
    IF \E k \in 1..Len(UpperChars) : UpperChars[k] = c
    THEN LowerChars[CHOOSE k \in 1..Len(UpperChars) : UpperChars[k] = c]
    ELSE c

\* str.lower()
lower(s) == [k \in 1..Len(s) |-> lower_char(s[k])]

\* s[a:b] with 0-based Python slice bounds already clipped to 0..len
slice(s, a, b) == IF b <= a THEN <<>> ELSE SubSeq(s, a + 1, b)

\* s.startswith(p)
startswith(s, p) == Len(s) >= Len(p) /\ SubSeq(s, 1, Len(p)) = p

\* s.endswith(p)
endswith(s, p) == Len(s) >= Len(p) /\ SubSeq(s, Len(s) - Len(p) + 1, Len(s)) = p

\* does p occur in s at 1-based position k
occurs_at(s, p, k) == k + Len(p) - 1 <= Len(s) /\ SubSeq(s, k, k + Len(p) - 1) = p

\* p in s
contains(s, p) == \E k \in 1..(Len(s) + 1) : occurs_at(s, p, k)

\* s.replace(old, "") for a non-empty old: every non-overlapping occurrence,
\* scanning from the left
RECURSIVE remove_all(_, _)
remove_all(s, old) ==
    IF s = <<>> THEN <<>>
    ELSE IF occurs_at(s, old, 1)
         THEN remove_all(SubSeq(s, Len(old) + 1, Len(s)), old)
         ELSE <<s[1]>> \o remove_all(Tail(s), old)

\* s.index(c): 1-based position of the first c, 0 when absent (ValueError)
index_of(s, c) ==
    IF \E k \in 1..Len(s) : s[k] = c
    THEN CHOOSE k \in 1..Len(s) : s[k] = c /\ \A j \in 1..(k - 1) : s[j] # c
    ELSE 0

Digits == <<"0", "1", "2", "3", "4", "5", "6", "7", "8", "9">>

digit_char(d) == Digits[d + 1]

\* str(n) for n >= 0
RECURSIVE str_int(_)
str_int(n) == IF n < 10 THEN <<digit_char(n)>>
              ELSE str_int(n \div 10) \o <<digit_char(n % 10)>>

\* n formatted in at least w digits, zero padded (%02d, %04d)
RECURSIVE zero_pad(_, _)
zero_pad(n, w) == IF Len(str_int(n)) >= w THEN str_int(n)
                  ELSE <<"0">> \o zero_pad(n, w - 1)

digit_value(c) == (CHOOSE k \in 1..10 : Digits[k] = c) - 1

\* int(x) for a string of decimal digits
RECURSIVE int_of(_)
int_of(s) == IF Len(s) = 0 THEN 0
             ELSE 10 * int_of(SubSeq(s, 1, Len(s) - 1)) + digit_value(s[Len(s)])

(***************************************************************************)
(* datetime: strptime with "%a %b %d %H:%M:%S %z %Y", strftime, ordering.  *)
(* A created_at string is its whitespace-separated fields                  *)
(* <<weekday, month, day, hour, minute, second, offset, year>>; the offset *)
(* is the signed number of minutes of "+HHMM".                             *)
(***************************************************************************)
WeekdayNames == {"Mon", "Tue", "Wed", "Thu", "Fri", "Sat", "Sun"}

MonthNames == <<"Jan", "Feb", "Mar", "Apr", "May", "Jun",
                "Jul", "Aug", "Sep", "Oct", "Nov", "Dec">>

month_number(name) == CHOOSE k \in 1..12 : MonthNames[k] = name

is_leap(y) == y % 4 = 0 /\ (y % 100 # 0 \/ y % 400 = 0)

DaysInMonth == <<31, 28, 31, 30, 31, 30, 31, 31, 30, 31, 30, 31>>

days_in_month(y, m) == IF m = 2 /\ is_leap(y) THEN 29 ELSE DaysInMonth[m]

DaysBeforeMonth == <<0, 31, 59, 90, 120, 151, 181, 212, 243, 273, 304, 334>>

days_before_year(y) ==
    (y - 1) * 365 + ((y - 1) \div 4) - ((y - 1) \div 100) + ((y - 1) \div 400)

days_before_month(y, m) ==
    DaysBeforeMonth[m] + (IF m > 2 /\ is_leap(y) THEN 1 ELSE 0)

\* date.toordinal()
ymd2ord(y, m, d) == days_before_year(y) + days_before_month(y, m) + d

\* does strptime accept the string (otherwise it raises ValueError)
strptime_ok(ca) ==
    /\ Len(ca) = 8
    /\ ca[1] \in WeekdayNames
    /\ \E k \in 1..12 : MonthNames[k] = ca[2]
    /\ ca[8] \in 1..9999
    /\ ca[3] \in 1..days_in_month(ca[8], month_number(ca[2]))
    /\ ca[4] \in 0..23
    /\ ca[5] \in 0..59
    /\ ca[6] \in 0..61
    /\ ca[7] \in (-1439)..1439

\* the aware datetime strptime returns: the fields as written (local to the
\* record's own offset) and the offset
strptime(ca) ==
    [year |-> ca[8], month |-> month_number(ca[2]), day |-> ca[3],
     hour |-> ca[4], minute |-> ca[5], second |-> ca[6], utcoffset |-> ca[7]]

\* dt.strftime("%Y-%m-%d")
strftime_ymd(dt) ==
    zero_pad(dt.year, 4) \o <<"-">> \o zero_pad(dt.month, 2) \o <<"-">>
        \o zero_pad(dt.day, 2)

\* dt.strftime("%Y-%m")
strftime_ym(dt) == zero_pad(dt.year, 4) \o <<"-">> \o zero_pad(dt.month, 2)

\* the instant an aware datetime denotes, as <<minutes since ordinal 0 in
\* UTC, seconds>>: aware datetimes compare by it
utc_instant(dt) ==
    <<ymd2ord(dt.year, dt.month, dt.day) * 1440 + dt.hour * 60 + dt.minute
        - dt.utcoffset, dt.second>>

\* dt1 <= dt2 for aware datetimes
datetime_le(a, b) ==
    LET x == utc_instant(a)
        y == utc_instant(b)
    IN  x[1] < y[1] \/ (x[1] = y[1] /\ x[2] <= y[2])

\* list.sort() of datetimes: stable, ascending (insertion after the last
\* element that is not greater)
insert_datetime(sorted, dt) ==
    LET p == Cardinality({k \in 1..Len(sorted) : datetime_le(sorted[k], dt)})
    IN  SubSeq(sorted, 1, p) \o <<dt>> \o SubSeq(sorted, p + 1, Len(sorted))

\* the elements of ds inserted one by one, in order, into sorted. The list
\* is walked by halves, and the left half is evaluated (its length tested,
\* a test that always succeeds) before the right half starts from it: TLC
\* defers the evaluation of operator arguments, and a chain of deferred
\* arguments as long as the list exhausts its stack.
RECURSIVE insert_datetimes(_, _)
insert_datetimes(sorted, ds) ==
    IF Len(ds) = 0 THEN sorted
    ELSE IF Len(ds) = 1 THEN insert_datetime(sorted, ds[1])
    ELSE LET h == Len(ds) \div 2
             left == insert_datetimes(sorted, SubSeq(ds, 1, h))
         IN  IF Len(left) >= h
             THEN insert_datetimes(left, SubSeq(ds, h + 1, Len(ds)))
             ELSE left

sort_datetimes(ds) == insert_datetimes(<<>>, ds)

(***************************************************************************)
(* urllib.parse.urlparse(url).netloc                                       *)
(***************************************************************************)
SchemeChars == {LowerChars[k] : k \in 1..26} \cup {UpperChars[k] : k \in 1..26}
                   \cup {Digits[k] : k \in 1..10} \cup {"+", "-", "."}

\* the url with a leading "scheme:" removed, when it has one
strip_scheme(url) ==
    LET i == index_of(url, ":")
    IN  IF i > 1 /\ \A k \in 1..(i - 1) : url[k] \in SchemeChars
        THEN SubSeq(url, i + 1, Len(url))
        ELSE url

\* _splitnetloc: the text after "//" up to the first of "/", "?", "#"
RECURSIVE take_netloc(_)
take_netloc(s) ==
    IF s = <<>> \/ s[1] \in {"/", "?", "#"} THEN <<>>
    ELSE <<s[1]>> \o take_netloc(Tail(s))

\* the netloc urlsplit finds ("" when the rest does not begin with "//")
netloc_of(url) ==
    LET rest == strip_scheme(url)
    IN  IF startswith(rest, <<"/", "/">>)
        THEN take_netloc(SubSeq(rest, 3, Len(rest)))
        ELSE <<>>

\* urlsplit raises ValueError("Invalid IPv6 URL") on an unbalanced bracket
urlparse_raises(url) ==
    LET n == netloc_of(url)
        open == \E k \in 1..Len(n) : n[k] = "["
        close == \E k \in 1..Len(n) : n[k] = "]"
    IN  (open /\ ~close) \/ (close /\ ~open)

(***************************************************************************)
(* collections.Counter: the keys in insertion order, each with its count.  *)
(***************************************************************************)
counter_has(c, k) == \E j \in 1..Len(c) : c[j].key = k

\* c[k] += 1
counter_inc(c, k) ==
    IF counter_has(c, k)
    THEN LET j == CHOOSE j \in 1..Len(c) : c[j].key = k
         IN  SubSeq(c, 1, j - 1) \o <<[key |-> k, count |-> c[j].count + 1]>>
                 \o SubSeq(c, j + 1, Len(c))
    ELSE Append(c, [key |-> k, count |-> 1])

\* for k in ks: c[k] += 1 (walked by halves, as insert_datetimes)
RECURSIVE counter_inc_all(_, _)
counter_inc_all(c, ks) ==
    IF Len(ks) = 0 THEN c
    ELSE IF Len(ks) = 1 THEN counter_inc(c, ks[1])
    ELSE LET h == Len(ks) \div 2
             left == counter_inc_all(c, SubSeq(ks, 1, h))
         IN  IF Len(left) >= 1
             THEN counter_inc_all(left, SubSeq(ks, h + 1, Len(ks)))
             ELSE left

\* a stable sort by count descending: an item goes after every item whose
\* count is not smaller
insert_by_count(sorted, item) ==
    LET p == Cardinality({k \in 1..Len(sorted) : sorted[k].count >= item.count})
    IN  SubSeq(sorted, 1, p) \o <<item>> \o SubSeq(sorted, p + 1, Len(sorted))

\* the items of c inserted in order (walked by halves, as insert_datetimes)
RECURSIVE insert_all_by_count(_, _)
insert_all_by_count(sorted, c) ==
    IF Len(c) = 0 THEN sorted
    ELSE IF Len(c) = 1 THEN insert_by_count(sorted, c[1])
    ELSE LET h == Len(c) \div 2
             left == insert_all_by_count(sorted, SubSeq(c, 1, h))
         IN  IF Len(left) >= h
             THEN insert_all_by_count(left, SubSeq(c, h + 1, Len(c)))
             ELSE left

sort_by_count(c) == insert_all_by_count(<<>>, c)

\* s[::-1]
Reverse(q) == [k \in 1..Len(q) |-> q[Len(q) + 1 - k]]

\* a ranking that keeps equal counts in reverse insertion order
most_common_ties_reversed(c, n) ==
    SubSeq(sort_by_count(Reverse(c)), 1, Min(n, Len(c)))

\* Counter.most_common(n): heapq.nlargest(n, items, key=count), which is
\* sorted(items, key=count, reverse=True)[:n]
most_common(c, n) == SubSeq(sort_by_count(c), 1, Min(n, Len(c)))

\* for k in ks: d.setdefault(year, Counter())[k] += 1
by_year_inc_all(d, year, ks) ==
    IF ks = <<>> THEN d
    ELSE [y \in DOMAIN d \cup {year} |->
            IF y = year
            THEN counter_inc_all(IF year \in DOMAIN d THEN d[year] ELSE <<>>, ks)
            ELSE d[y]]

\* the empty dict
EmptyDict == [k \in {} |-> 0]

(***************************************************************************)
(* dict access with defaults.                                              *)
(***************************************************************************)
\* d.get(k, default)
get(d, k, default) == IF k \in DOMAIN d THEN d[k] ELSE default

\* tw.get("entities", {}).get(name, [])
entity_list(tw, name) == get(get(tw, "entities", EmptyDict), name, <<>>)

(***************************************************************************)
(* The inputs: records of an archive, as the parsed JSON of tweets.js.     *)
(***************************************************************************)
S_RT_AT == <<"R", "T", " ", "@">>
S_TWITTER_COM == <<"t", "w", "i", "t", "t", "e", "r", ".", "c", "o", "m">>
S_T_CO == <<"t", ".", "c", "o">>
S_WWW == <<"w", "w", "w", ".">>
S_ZIP == <<".", "z", "i", "p">>
S_UND == <<"u", "n", "d">>

\* a record posted late on 1 January 2020 at offset -05:00
TweetOriginal ==
    [created_at |-> <<"Wed", "Jan", 1, 23, 30, 0, -300, 2020>>,
     full_text |-> <<"h", "i", " ", "#", "a", " ", "#", "B">>,
     entities |-> [hashtags |-> <<[text |-> <<"a">>], [text |-> <<"B">>]>>,
                   urls |-> <<[expanded_url |-> <<"h", "t", "t", "p", "s", ":", "/", "/", "e", "x", "a", "m", "p", "l", "e", ".", "c", "o", "m", "/", "a">>, url |-> <<"h", "t", "t", "p", "s", ":", "/", "/", "t", ".", "c", "o", "/", "x">>]>>],
     favorite_count |-> <<"5">>, retweet_count |-> <<"1">>, lang |-> <<"e", "n">>]

\* a repost, posted early on 2 January 2020 at offset +00:00
TweetRepost ==
    [created_at |-> <<"Thu", "Jan", 2, 1, 0, 0, 0, 2020>>,
     full_text |-> <<"R", "T", " ", "@", "b", "o", "b", ":", " ", "y", "o">>,
     entities |-> [hashtags |-> <<[text |-> <<"A">>]>>,
                   user_mentions |-> <<[screen_name |-> <<"b", "o", "b">>]>>,
                   media |-> <<>>],
     favorite_count |-> <<"5">>, retweet_count |-> <<"1", "2">>, lang |-> <<"e", "n">>]

\* a text that begins with "RT " but not with "RT @"; no optional field
\* but extended_entities
TweetPlain ==
    [created_at |-> <<"Tue", "Dec", 31, 12, 0, 0, 0, 2019>>,
     full_text |-> <<"R", "T", " ", "i", "s", " ", "f", "u", "n">>,
     extended_entities |-> [media |-> <<<<"m">>>>]]

\* a created_at in another format: strptime raises ValueError
TweetBadDate ==
    [created_at |-> <<"2020-01-01T00:00:00Z">>,
     full_text |-> <<"b", "a", "d">>,
     favorite_count |-> <<"1">>, retweet_count |-> <<"1">>]

SmallTweets == {TweetOriginal, TweetRepost, TweetPlain, TweetBadDate}

RECURSIVE SeqsUpTo(_, _)
SeqsUpTo(S, n) ==
    IF n = 0 THEN {<<>>}
    ELSE LET shorter == SeqsUpTo(S, n - 1)
         IN  shorter \cup {Append(q, x) : q \in shorter, x \in S}

\* the outbound URL entries tried
UrlSamples ==
    {[expanded_url |-> <<"h", "t", "t", "p", "s", ":", "/", "/", "e", "x", "a", "m", "p", "l", "e", ".", "c", "o", "m", "/", "a">>],
     [expanded_url |-> <<"h", "t", "t", "p", "s", ":", "/", "/", "w", "w", "w", ".", "e", "x", "a", "m", "p", "l", "e", ".", "c", "o", "m", "/">>],
     [expanded_url |-> <<"h", "t", "t", "p", "s", ":", "/", "/", "t", "w", "i", "t", "t", "e", "r", ".", "c", "o", "m", "/", "u", "/", "1">>],
     [expanded_url |-> <<"h", "t", "t", "p", "s", ":", "/", "/", "t", ".", "c", "o", "/", "x">>],
     [expanded_url |-> <<"h", "t", "t", "p", "s", ":", "/", "/", "r", "e", "d", "d", "i", "t", ".", "c", "o", "m", "/", "r">>],
     [expanded_url |-> <<"h", "t", "t", "p", ":", "/", "/", "[", ":", ":", "1", "/", "x">>],
     [expanded_url |-> <<"e", "x", "a", "m", "p", "l", "e", ".", "c", "o", "m", "/", "x">>],
     [expanded_url |-> <<>>],
     [url |-> <<"h", "t", "t", "p", ":", "/", "/", "i", "a", "n", "a", ".", "o", "r", "g">>]}

MaxUrls == 2

\* one record with the given URL entries
UrlTweet(us) ==
    [created_at |-> <<"Fri", "Feb", 28, 9, 15, 30, 60, 2020>>,
     full_text |-> <<"l", "i", "n", "k", "s">>,
     entities |-> [urls |-> us],
     favorite_count |-> <<"0">>, retweet_count |-> <<"0">>, lang |-> <<"f", "r">>]

\* the i-th of many distinct hashtags, two letters each, the first in upper
\* case
ManyTag(i) == <<UpperChars[(i % 26) + 1], LowerChars[(i \div 26) + 1]>>

\* one record with NumManyTags distinct hashtags
ManyTagsTweet ==
    [created_at |-> <<"Sun", "Mar", 1, 0, 0, 0, 0, 2020>>,
     full_text |-> <<"t", "a", "g", "s">>,
     entities |-> [hashtags |-> [i \in 1..NumManyTags |-> [text |-> ManyTag(i)]]]]

\* one record with the i-th of them alone, in lower case
OneTagTweet(i) ==
    [created_at |-> <<"Mon", "Mar", 2, 0, 0, 0, 0, 2020>>,
     full_text |-> <<"t", "a", "g">>,
     entities |-> [hashtags |-> <<[text |-> lower(ManyTag(i))]>>]]

\* the i-th record of the k-th long list: favorites and retweets repeat with
\* different periods, the text names i
LongTweet(k, i) ==
    [created_at |-> <<"Sat", "Apr", 1 + (i % 28), i % 24, 0, 0, 0, 2018 + (i % 2)>>,
     full_text |-> <<"n">> \o str_int(i),
     favorite_count |-> str_int((i * k) % 3),
     retweet_count |-> str_int((i + k) % 2)]

LongList(k) == [i \in 1..LongLen |-> LongTweet(k, i)]

\* the parsed record lists tried: each element wraps its record under "tweet"
wrap(ts) == [i \in 1..Len(ts) |-> [tweet |-> ts[i]]]

InputLists ==
    {wrap(ts) : ts \in SeqsUpTo(SmallTweets, MaxTweets)}
    \cup {wrap(<<UrlTweet(us)>>) : us \in SeqsUpTo(UrlSamples, MaxUrls)}
    \cup {wrap(LongList(k)) : k \in 1..2}
    \cup {wrap(<<ManyTagsTweet>>)}
    \cup {wrap(<<ManyTagsTweet, OneTagTweet(i)>>) : i \in {2, NumManyTags}}
    \cup {wrap(<<OneTagTweet(i), ManyTagsTweet>>) : i \in {2, NumManyTags}}

(***************************************************************************)
(* The command line and the filesystem a run starts from.                  *)
(*   argv            sys.argv                                              *)
(*   fs.isfile/isdir what os.path says of argv[1]                          *)
(*   fs.zip_ok       whether the file is a readable zip archive            *)
(*   fs.where        the directory of the tree that holds tweets.js:       *)
(*                   "." (the root), "data", "deep" (anywhere else), or    *)
(*                   "none"                                                *)
(*   fs.head         the text of tweets.js before its JSON array           *)
(*   fs.array        "none" (no array), "malformed" or "valid"             *)
(*   fs.value        the value of the array when it is valid               *)
(***************************************************************************)
P_ZIP == <<"a", ".", "z", "i", "p">>
P_DIR == <<"a", "r", "c", "h">>
P_TXT == <<"a", ".", "t", "x", "t">>
P_OUT == <<"o", ".", "j", "s", "o", "n">>
P_DEFAULT_OUT == <<"d", "a", "s", "h", "b", "o", "a", "r", "d", "_", "d", "a", "t", "a", ".", "j", "s", "o", "n">>
P_PROG == <<"x", ".", "p", "y">>
HEAD_YTD == <<"w", "i", "n", "d", "o", "w", ".", "Y", "T", "D", ".", "t", "w", "e", "e", "t", "s", ".", "p", "a", "r", "t", "0", " ", "=", " ">>
HEAD_BRACKET == <<"w", "i", "n", "d", "o", "w", ".", "Y", "T", "D", "[", "0", "]", " ", "=", " ">>

File(head, array, value) == [head |-> head, array |-> array, value |-> value]

Fs(isfile, isdir, zip_ok, where, file) ==
    [isfile |-> isfile, isdir |-> isdir, zip_ok |-> zip_ok, where |-> where,
     head |-> file.head, array |-> file.array, value |-> file.value]

GoodFile(ts) == File(HEAD_YTD, "valid", ts)

BadFiles == {File(HEAD_YTD, "none", <<>>), File(HEAD_YTD, "malformed", <<>>),
             File(HEAD_BRACKET, "valid", <<>>)}

\* the runs that stop before the aggregation loop
EarlyRuns ==
    {[argv |-> <<P_PROG>>, fs |-> Fs(FALSE, FALSE, FALSE, "none", GoodFile(<<>>))]}
    \cup {[argv |-> <<P_PROG, P_ZIP>>, fs |-> Fs(TRUE, FALSE, ok, w, GoodFile(<<>>))] :
            ok \in BOOLEAN, w \in {"none", "."}}
    \cup {[argv |-> <<P_PROG, src>>, fs |-> Fs(FALSE, TRUE, FALSE, w, GoodFile(<<>>))] :
            src \in {P_DIR, P_ZIP}, w \in {"none", "deep"}}
    \cup {[argv |-> <<P_PROG, P_TXT, P_OUT>>,
           fs |-> Fs(isfile, FALSE, FALSE, "none", GoodFile(<<>>))] : isfile \in BOOLEAN}
    \cup {[argv |-> <<P_PROG, P_ZIP>>, fs |-> Fs(TRUE, FALSE, TRUE, "deep", f)] :
            f \in BadFiles}
    \cup {[argv |-> <<P_PROG, P_DIR>>, fs |-> Fs(FALSE, TRUE, FALSE, "data", f)] :
            f \in BadFiles}

\* the runs that reach the aggregation loop, one of each kind per record list
LoopRuns ==
    {[argv |-> <<P_PROG, P_ZIP, P_OUT>>, fs |-> Fs(TRUE, FALSE, TRUE, "deep", GoodFile(ts))] :
        ts \in InputLists}
    \cup {[argv |-> <<P_PROG, P_DIR>>, fs |-> Fs(FALSE, TRUE, FALSE, "data", GoodFile(ts))] :
        ts \in InputLists}
    \cup {[argv |-> <<P_PROG, P_DIR, P_OUT>>, fs |-> Fs(FALSE, TRUE, FALSE, ".", GoodFile(ts))] :
        ts \in InputLists}

Runs == EarlyRuns \cup LoopRuns

(***************************************************************************)
(* State.                                                                  *)
(***************************************************************************)
VARIABLES
    argv,              \* sys.argv
    fs,                \* the filesystem the run reads
    pc,                \* position in main(): "start", "extract", "load",
                       \* "loop", "write", "done"
    tmp,               \* does the temporary extraction directory exist
    in_with,           \* is control inside the TemporaryDirectory block
    data_dir,          \* the directory holding tweets.js, as fs.where names it
    tweets,            \* the list load_twitter_js returned
    idx,               \* 1-based position of the loop of process_tweets
    all_hashtags, all_mentions, all_domains, lang_counts,
    monthly_volume, yearly_volume,
    hashtags_by_year, mentions_by_year, domains_by_year,
    records,           \* the record projections
    result,            \* the report process_tweets returned (<<>> before)
    output_file,       \* <<>> while unopened, else <<[path, data]>>
    exc,               \* the exception or exit that ended the run, "" if none
    exit_code          \* the exit status, meaningful when pc = "done"

accumulators == <<all_hashtags, all_mentions, all_domains, lang_counts,
                  monthly_volume, yearly_volume, hashtags_by_year,
                  mentions_by_year, domains_by_year, records>>

vars == <<argv, fs, pc, tmp, in_with, data_dir, tweets, idx, accumulators,
          result, output_file, exc, exit_code>>

Init ==
    /\ \E run \in Runs : argv = run.argv /\ fs = run.fs
    /\ pc = "start"
    /\ tmp = FALSE
    /\ in_with = FALSE
    /\ data_dir = ""
    /\ tweets = <<>>
    /\ idx = 1
    /\ all_hashtags = <<>>
    /\ all_mentions = <<>>
    /\ all_domains = <<>>
    /\ lang_counts = <<>>
    /\ monthly_volume = EmptyDict
    /\ yearly_volume = EmptyDict
    /\ hashtags_by_year = EmptyDict
    /\ mentions_by_year = EmptyDict
    /\ domains_by_year = EmptyDict
    /\ records = <<>>
    /\ result = <<>>
    /\ output_file = <<>>
    /\ exc = ""
    /\ exit_code = 0

(***************************************************************************)
(* Leaving the run.                                                        *)
(***************************************************************************)
\* a directory made with mkdtemp and never removed
TemporaryDirectoryLeft(existed) == existed

\* TemporaryDirectory.__exit__: whether the directory exists after control
\* leaves the with block, given whether it existed inside it
TemporaryDirectoryExit(existed) == FALSE

\* an error branch that prints its message and falls through to the write
SysExitForgotten ==
    /\ pc' = "write"
    /\ UNCHANGED <<argv, fs, tmp, in_with, data_dir, tweets, idx, accumulators,
                   result, output_file, exc, exit_code>>

\* sys.exit(1) in main(), outside the with block
SysExit ==
    /\ pc' = "done"
    /\ exc' = "SystemExit"
    /\ exit_code' = 1
    /\ UNCHANGED <<argv, fs, tmp, in_with, data_dir, tweets, idx, accumulators,
                   result, output_file>>

\* an exception nothing catches: it unwinds through the with block when
\* control is inside it, and the interpreter exits with status 1
Raise(name) ==
    /\ pc' = "done"
    /\ exc' = name
    /\ exit_code' = 1
    /\ tmp' = IF in_with THEN TemporaryDirectoryExit(tmp) ELSE tmp
    /\ in_with' = FALSE
    /\ UNCHANGED <<argv, fs, data_dir, tweets, idx, accumulators, result,
                   output_file>>

(***************************************************************************)
(* main(): choosing the branch.                                            *)
(***************************************************************************)
\* the path the output is written to
output_path == IF Len(argv) > 2 THEN argv[3] ELSE P_DEFAULT_OUT

MainUsage ==
    /\ pc = "start"
    /\ Len(argv) < 2
    /\ SysExit

\* the zip branch: the temporary directory is created on entering the block
MainZip ==
    /\ pc = "start"
    /\ Len(argv) >= 2
    /\ fs.isfile /\ endswith(argv[2], S_ZIP)
    /\ tmp' = TRUE
    /\ in_with' = TRUE
    /\ pc' = "extract"
    /\ UNCHANGED <<argv, fs, data_dir, tweets, idx, accumulators, result,
                   output_file, exc, exit_code>>

\* the directory branch, tweets.js directly inside the directory
MainDirDirect ==
    /\ pc = "start"
    /\ Len(argv) >= 2
    /\ ~(fs.isfile /\ endswith(argv[2], S_ZIP))
    /\ fs.isdir
    /\ fs.where = "."
    /\ data_dir' = "."
    /\ pc' = "load"
    /\ UNCHANGED <<argv, fs, tmp, in_with, tweets, idx, accumulators, result,
                   output_file, exc, exit_code>>

\* the directory branch, tweets.js inside its data subdirectory
MainDirData ==
    /\ pc = "start"
    /\ Len(argv) >= 2
    /\ ~(fs.isfile /\ endswith(argv[2], S_ZIP))
    /\ fs.isdir
    /\ fs.where = "data"
    /\ data_dir' = "data"
    /\ pc' = "load"
    /\ UNCHANGED <<argv, fs, tmp, in_with, tweets, idx, accumulators, result,
                   output_file, exc, exit_code>>

\* the directory branch, tweets.js in neither place
MainDirNotFound ==
    /\ pc = "start"
    /\ Len(argv) >= 2
    /\ ~(fs.isfile /\ endswith(argv[2], S_ZIP))
    /\ fs.isdir
    /\ fs.where \notin {".", "data"}
    /\ SysExit

\* neither a zip file nor a directory
MainInvalid ==
    /\ pc = "start"
    /\ Len(argv) >= 2
    /\ ~(fs.isfile /\ endswith(argv[2], S_ZIP))
    /\ ~fs.isdir
    /\ SysExit

(***************************************************************************)
(* extract_archive()                                                       *)
(***************************************************************************)
\* zipfile.ZipFile raises BadZipFile
ExtractArchiveBadZip ==
    /\ pc = "extract"
    /\ ~fs.zip_ok
    /\ Raise("BadZipFile")

\* os.walk finds tweets.js anywhere in the extracted tree
ExtractArchiveFound ==
    /\ pc = "extract"
    /\ fs.zip_ok
    /\ fs.where # "none"
    /\ data_dir' = fs.where
    /\ pc' = "load"
    /\ UNCHANGED <<argv, fs, tmp, in_with, tweets, idx, accumulators, result,
                   output_file, exc, exit_code>>

ExtractArchiveNotFound ==
    /\ pc = "extract"
    /\ fs.zip_ok
    /\ fs.where = "none"
    /\ Raise("FileNotFoundError")

(***************************************************************************)
(* load_twitter_js()                                                       *)
(***************************************************************************)
\* content.index("[") finds a bracket
has_bracket(f) == index_of(f.head, "[") > 0 \/ f.array # "none"

\* json.loads(content[json_start:]) succeeds: the text from the first
\* bracket on is exactly a well-formed array
json_loads_ok(f) == index_of(f.head, "[") = 0 /\ f.array = "valid"

LoadTwitterJs ==
    /\ pc = "load"
    /\ has_bracket(fs) /\ json_loads_ok(fs)
    /\ tweets' = fs.value
    /\ idx' = 1
    /\ pc' = "loop"
    /\ UNCHANGED <<argv, fs, tmp, in_with, data_dir, accumulators, result,
                   output_file, exc, exit_code>>

\* str.index raises ValueError, json.loads raises JSONDecodeError (a
\* ValueError)
LoadTwitterJsFails ==
    /\ pc = "load"
    /\ ~(has_bracket(fs) /\ json_loads_ok(fs))
    /\ Raise("ValueError")

(***************************************************************************)
(* process_tweets(): one pass of the aggregation loop.                     *)
(***************************************************************************)
\* the filter on a domain: non-empty, and neither marker occurs in it
domain_kept(domain) ==
    /\ domain # <<>>
    /\ ~contains(domain, S_TWITTER_COM)
    /\ ~contains(domain, S_T_CO)

\* the domain counted for one URL entry, as a list of zero or one domain
url_domain(u) ==
    LET expanded == get(u, "expanded_url", get(u, "url", <<>>))
    IN  IF expanded = <<>> THEN <<>>
        ELSE IF urlparse_raises(expanded) THEN <<>>
        ELSE LET domain == remove_all(netloc_of(expanded), S_WWW)
             IN  IF domain_kept(domain) THEN <<domain>> ELSE <<>>

\* the domains counted for the URL entries of a record, in order
RECURSIVE counted_domains(_)
counted_domains(urls) ==
    IF urls = <<>> THEN <<>>
    ELSE url_domain(Head(urls)) \o counted_domains(Tail(urls))

\* a repost test that looks for "RT" alone
is_retweet_rt_only(tw) == startswith(tw.full_text, <<"R", "T">>)

\* is_rt
is_retweet(tw) == startswith(tw.full_text, S_RT_AT)

\* has_media
has_media_of(tw) ==
    "extended_entities" \in DOMAIN tw \/ Len(entity_list(tw, "media")) > 0

\* the hashtags of a record, lowercased
hashtags_of(tw) ==
    LET hs == entity_list(tw, "hashtags")
    IN  [k \in 1..Len(hs) |-> lower(hs[k].text)]

\* the screen names a record mentions
mentions_of(tw) ==
    LET ms == entity_list(tw, "user_mentions")
    IN  [k \in 1..Len(ms) |-> ms[k].screen_name]

\* int(tw.get(name, 0))
int_field(tw, name) == IF name \in DOMAIN tw THEN int_of(tw[name]) ELSE 0

NewMonth == [total |-> 0, original |-> 0, retweet |-> 0]

NewYear == [total |-> 0, original |-> 0, retweet |-> 0, with_media |-> 0,
            favorites |-> 0, retweet_count |-> 0]

\* d[key] = new, whether or not the key is there
setdefault_overwrites(d, key, new) ==
    [k \in DOMAIN d \cup {key} |-> IF k = key THEN new ELSE d[k]]

\* d.setdefault(key, new)
setdefault(d, key, new) ==
    IF key \in DOMAIN d THEN d
    ELSE [k \in DOMAIN d \cup {key} |-> IF k = key THEN new ELSE d[k]]

\* a monthly bucket that counts every record as an original
bump_month_no_else(b, is_rt) ==
    [b EXCEPT !.total = @ + 1,
              !.retweet = IF is_rt THEN @ + 1 ELSE @,
              !.original = @ + 1]

\* the monthly bucket after one more record
bump_month(b, is_rt) ==
    [b EXCEPT !.total = @ + 1,
              !.retweet = IF is_rt THEN @ + 1 ELSE @,
              !.original = IF is_rt THEN @ ELSE @ + 1]

\* the yearly bucket after one more record
bump_year(b, is_rt, has_media, favorites, retweets) ==
    [b EXCEPT !.total = @ + 1,
              !.retweet = IF is_rt THEN @ + 1 ELSE @,
              !.original = IF is_rt THEN @ ELSE @ + 1,
              !.with_media = IF has_media THEN @ + 1 ELSE @,
              !.favorites = @ + favorites,
              !.retweet_count = @ + retweets]

\* the year a record is bucketed under: str(dt.year)
year_key(dt) == str_int(dt.year)

\* the projection kept of a record
projection(tw, dt, url_count) ==
    [date |-> strftime_ymd(dt),
     text |-> slice(tw.full_text, 0, Min(TextLimit, Len(tw.full_text))),
     favorites |-> int_field(tw, "favorite_count"),
     retweets |-> int_field(tw, "retweet_count"),
     is_retweet |-> is_retweet(tw),
     has_media |-> has_media_of(tw),
     url_count |-> url_count]

ProcessTweet ==
    /\ pc = "loop"
    /\ idx <= Len(tweets)
    /\ strptime_ok(tweets[idx].tweet.created_at)
    /\ LET tw == tweets[idx].tweet
           dt == strptime(tw.created_at)
           year == year_key(dt)
           year_month == strftime_ym(dt)
           is_rt == is_retweet(tw)
           hashtags == hashtags_of(tw)
           mentions == mentions_of(tw)
           domains == counted_domains(entity_list(tw, "urls"))
       IN  /\ all_hashtags' = counter_inc_all(all_hashtags, hashtags)
           /\ hashtags_by_year' = by_year_inc_all(hashtags_by_year, year, hashtags)
           /\ all_mentions' = counter_inc_all(all_mentions, mentions)
           /\ mentions_by_year' = by_year_inc_all(mentions_by_year, year, mentions)
           /\ all_domains' = counter_inc_all(all_domains, domains)
           /\ domains_by_year' = by_year_inc_all(domains_by_year, year, domains)
           /\ lang_counts' = counter_inc(lang_counts, get(tw, "lang", S_UND))
           /\ monthly_volume' =
                 [setdefault(monthly_volume, year_month, NewMonth)
                    EXCEPT ![year_month] = bump_month(@, is_rt)]
           /\ yearly_volume' =
                 [setdefault(yearly_volume, year, NewYear)
                    EXCEPT ![year] = bump_year(@, is_rt, has_media_of(tw),
                                               int_field(tw, "favorite_count"),
                                               int_field(tw, "retweet_count"))]
           /\ records' = Append(records, projection(tw, dt, Len(domains)))
    /\ idx' = idx + 1
    /\ UNCHANGED <<argv, fs, pc, tmp, in_with, data_dir, tweets, result,
                   output_file, exc, exit_code>>

\* strptime raises ValueError on a created_at of another format
ProcessTweetBadDate ==
    /\ pc = "loop"
    /\ idx <= Len(tweets)
    /\ ~strptime_ok(tweets[idx].tweet.created_at)
    /\ Raise("ValueError")

(***************************************************************************)
(* process_tweets(): the report.                                           *)
(***************************************************************************)
\* a stable sort of the projections by a field, descending: an item goes
\* after every item whose value is not smaller
insert_desc(sorted, item, field) ==
    LET p == Cardinality({k \in 1..Len(sorted) : sorted[k][field] >= item[field]})
    IN  SubSeq(sorted, 1, p) \o <<item>> \o SubSeq(sorted, p + 1, Len(sorted))

\* the items of rs inserted in order (walked by halves, as insert_datetimes)
RECURSIVE insert_all_desc(_, _, _)
insert_all_desc(sorted, rs, field) ==
    IF Len(rs) = 0 THEN sorted
    ELSE IF Len(rs) = 1 THEN insert_desc(sorted, rs[1], field)
    ELSE LET h == Len(rs) \div 2
             left == insert_all_desc(sorted, SubSeq(rs, 1, h), field)
         IN  IF Len(left) >= h
             THEN insert_all_desc(left, SubSeq(rs, h + 1, Len(rs)), field)
             ELSE left

sorted_desc(rs, field) == insert_all_desc(<<>>, rs, field)

\* a ranking that keeps equal values in reverse input order
top_tweets_ties_reversed(rs, field) ==
    SubSeq(sorted_desc(Reverse(rs), field), 1, Min(TopTweetsN, Len(rs)))

\* sorted(records, key=lambda x: x[field], reverse=True)[:20]
top_tweets(rs, field) == SubSeq(sorted_desc(rs, field), 1, Min(TopTweetsN, Len(rs)))

\* the four fields of a projection the report lists
listed(r) == [date |-> r.date, text |-> r.text, favorites |-> r.favorites,
              retweets |-> r.retweets]

\* sum(1 for r in records if ...)
count_where(rs, field) == Cardinality({k \in 1..Len(rs) : rs[k][field]})

\* [{name: key, "count": count} for key, count in counter.most_common(n)]
tag_list(c, n) ==
    LET top == most_common(c, n)
    IN  [k \in 1..Len(top) |-> [tag |-> top[k].key, count |-> top[k].count]]

account_list(c, n) ==
    LET top == most_common(c, n)
    IN  [k \in 1..Len(top) |-> [account |-> top[k].key, count |-> top[k].count]]

domain_list(c, n) ==
    LET top == most_common(c, n)
    IN  [k \in 1..Len(top) |-> [domain |-> top[k].key, count |-> top[k].count]]

lang_list(c, n) ==
    LET top == most_common(c, n)
    IN  [k \in 1..Len(top) |-> [lang |-> top[k].key, count |-> top[k].count]]

\* the sorted creation timestamps of the input
sorted_dates(ts) ==
    sort_datetimes([k \in 1..Len(ts) |-> strptime(ts[k].tweet.created_at)])

\* "date_range"
date_range(dates) ==
    [start |-> strftime_ymd(dates[1]), end |-> strftime_ymd(dates[Len(dates)])]

\* the number of originals
originals_of(rs) == Cardinality({k \in 1..Len(rs) : ~rs[k].is_retweet})

\* the output dict
report ==
    LET total == Len(records)
        originals == originals_of(records)
        top_by_fav == top_tweets(records, "favorites")
        top_by_rt == top_tweets(records, "retweets")
    IN  [total_tweets |-> total,
         original_tweets |-> originals,
         retweets |-> total - originals,
         with_media |-> count_where(records, "has_media"),
         with_urls |-> Cardinality({k \in 1..Len(records) : records[k].url_count > 0}),
         unique_hashtags |-> Len(all_hashtags),
         unique_mentions |-> Len(all_mentions),
         date_range |-> date_range(sorted_dates(tweets)),
         top_hashtags |-> tag_list(all_hashtags, TopCounterN),
         top_mentions |-> account_list(all_mentions, TopCounterN),
         top_domains |-> domain_list(all_domains, TopCounterN),
         languages |-> lang_list(lang_counts, TopYearN),
         monthly_volume |-> monthly_volume,
         yearly_volume |-> yearly_volume,
         hashtags_by_year |->
             [y \in DOMAIN hashtags_by_year |-> tag_list(hashtags_by_year[y], TopYearN)],
         mentions_by_year |->
             [y \in DOMAIN mentions_by_year |-> account_list(mentions_by_year[y], TopYearN)],
         domains_by_year |->
             [y \in DOMAIN domains_by_year |-> domain_list(domains_by_year[y], TopYearN)],
         top_tweets_by_favorites |->
             [k \in 1..Len(top_by_fav) |-> listed(top_by_fav[k])],
         top_tweets_by_retweets |->
             [k \in 1..Len(top_by_rt) |-> listed(top_by_rt[k])]]

\* the loop is over and the list is not empty: the report is built and
\* returned to main(), which leaves the with block when it is inside one
BuildOutput ==
    /\ pc = "loop"
    /\ idx > Len(tweets)
    /\ Len(tweets) > 0
    /\ result' = report
    /\ tmp' = IF in_with THEN TemporaryDirectoryExit(tmp) ELSE tmp
    /\ in_with' = FALSE
    /\ pc' = "write"
    /\ UNCHANGED <<argv, fs, data_dir, tweets, idx, accumulators, output_file,
                   exc, exit_code>>

\* the list is empty: dates[0] raises IndexError
BuildOutputEmpty ==
    /\ pc = "loop"
    /\ idx > Len(tweets)
    /\ Len(tweets) = 0
    /\ Raise("IndexError")

(***************************************************************************)
(* main(): writing the report.                                             *)
(***************************************************************************)
WriteOutput ==
    /\ pc = "write"
    /\ output_file' = <<[path |-> output_path, data |-> result]>>
    /\ pc' = "done"
    /\ exit_code' = 0
    /\ UNCHANGED <<argv, fs, tmp, in_with, data_dir, tweets, idx, accumulators,
                   result, exc>>

Next ==
    \/ MainUsage
    \/ MainZip
    \/ MainDirDirect
    \/ MainDirData
    \/ MainDirNotFound
    \/ MainInvalid
    \/ ExtractArchiveBadZip
    \/ ExtractArchiveFound
    \/ ExtractArchiveNotFound
    \/ LoadTwitterJs
    \/ LoadTwitterJsFails
    \/ ProcessTweet
    \/ ProcessTweetBadDate
    \/ BuildOutput
    \/ BuildOutputEmpty
    \/ WriteOutput

Spec == Init /\ [][Next]_vars

(***************************************************************************)
(* Properties.                                                             *)
(***************************************************************************)
\* process_tweets has returned its report
has_report == pc = "write" \/ (pc = "done" /\ exc = "")

\* the text of the k-th input record begins with the four characters "RT @"
begins_with_marker(k) ==
    LET text == tweets[k].tweet.full_text
    IN  Len(text) >= 4 /\ text[1] = "R" /\ text[2] = "T" /\ text[3] = " "
            /\ text[4] = "@"

Marked == {k \in 1..Len(tweets) : begins_with_marker(k)}

\* C1: in the report, original_tweets + retweets = total_tweets, where
\* total_tweets is the number of input records, retweets the number of
\* records whose full_text begins with "RT @" and original_tweets the number
\* of the others.
C1_TotalsAddUp ==
    has_report =>
        /\ result.original_tweets + result.retweets = result.total_tweets
        /\ result.total_tweets = Len(tweets)
        /\ result.retweets = Cardinality(Marked)
        /\ result.original_tweets = Cardinality((1..Len(tweets)) \ Marked)

\* a report over a repost and a record that begins "RT " without the "@"
C1_Witness ==
    /\ has_report
    /\ result.retweets >= 1
    /\ \E k \in 1..Len(tweets) :
          /\ ~begins_with_marker(k)
          /\ startswith(tweets[k].tweet.full_text, <<"R", "T", " ">>)

bucket_adds_up(b) ==
    /\ b.original + b.retweet = b.total
    /\ b.original >= 0 /\ b.retweet >= 0 /\ b.total >= 0

\* C2: after each record of the aggregation loop, and in the report, every
\* bucket of monthly_volume and of yearly_volume has
\* original + retweet = total with the three counts non-negative.
C2_BucketsAddUp ==
    /\ \A m \in DOMAIN monthly_volume : bucket_adds_up(monthly_volume[m])
    /\ \A y \in DOMAIN yearly_volume : bucket_adds_up(yearly_volume[y])
    /\ has_report =>
          /\ \A m \in DOMAIN result.monthly_volume :
                bucket_adds_up(result.monthly_volume[m])
          /\ \A y \in DOMAIN result.yearly_volume :
                bucket_adds_up(result.yearly_volume[y])

\* in the loop, a bucket that has taken an original and a repost
C2_Witness ==
    /\ pc = "loop"
    /\ \E m \in DOMAIN monthly_volume :
          monthly_volume[m].original >= 1 /\ monthly_volume[m].retweet >= 1

RECURSIVE sum_totals(_, _)
sum_totals(d, keys) ==
    IF keys = {} THEN 0
    ELSE LET k == CHOOSE k \in keys : TRUE
         IN  d[k].total + sum_totals(d, keys \ {k})

\* the input records of a year, of a year and month
in_year(y) == {k \in 1..Len(tweets) : tweets[k].tweet.created_at[8] = y}

in_month(y, m) ==
    {k \in in_year(y) : month_number(tweets[k].tweet.created_at[2]) = m}

\* C3: in the report the totals of the yearly buckets sum to total_tweets,
\* and so do those of the monthly buckets; each bucket's total is the
\* number of records of its year (its year and month), so every record is
\* counted in exactly one bucket of each table.
C3_BucketsPartition ==
    has_report =>
        /\ sum_totals(result.yearly_volume, DOMAIN result.yearly_volume)
              = result.total_tweets
        /\ sum_totals(result.monthly_volume, DOMAIN result.monthly_volume)
              = result.total_tweets
        /\ \A y \in DOMAIN result.yearly_volume :
              result.yearly_volume[y].total = Cardinality(in_year(int_of(y)))
        /\ \A ym \in DOMAIN result.monthly_volume :
              result.monthly_volume[ym].total =
                  Cardinality(in_month(int_of(SubSeq(ym, 1, 4)),
                                       int_of(SubSeq(ym, 6, 7))))

\* a report with several records in one bucket and more than one bucket
C3_Witness ==
    /\ has_report
    /\ Cardinality(DOMAIN result.yearly_volume) >= 2
    /\ \E y \in DOMAIN result.yearly_volume : result.yearly_volume[y].total >= 2

\* the hashtags of input records k..Len(tweets), lowercased, in the order
\* they occur
RECURSIVE tags_from(_)
tags_from(k) ==
    IF k > Len(tweets) THEN <<>>
    ELSE LET hs == entity_list(tweets[k].tweet, "hashtags")
             here == SubSeq([j \in 1..Len(hs) |-> lower(hs[j].text)], 1, Len(hs))
         IN  here \o tags_from(k + 1)

\* C4: top_hashtags has at most 50 entries, sorted by count descending, and
\* is the 50 highest-count entries of the global lowercased hashtag counter,
\* hashtags of equal count in the order they were first seen.
C4_TopHashtags ==
    has_report =>
        LET top == result.top_hashtags
            seen == tags_from(1)
            tags == {seen[p] : p \in 1..Len(seen)}
            count_of(t) == Cardinality({p \in 1..Len(seen) : seen[p] = t})
            first_of(t) ==
                CHOOSE p \in 1..Len(seen) :
                    seen[p] = t /\ \A q \in 1..(p - 1) : seen[q] # t
            \* where each listed hashtag was first seen
            first == SubSeq([i \in 1..Len(top) |-> first_of(top[i].tag)], 1, Len(top))
            listed_tags == {top[i].tag : i \in 1..Len(top)}
        IN  /\ Len(top) <= 50
            /\ Len(top) = Min(50, Cardinality(tags))
            /\ \A i \in 1..Len(top) :
                  top[i].tag \in tags /\ top[i].count = count_of(top[i].tag)
            /\ \A i \in 1..Len(top) : \A j \in (i + 1)..Len(top) :
                  \/ top[i].count > top[j].count
                  \/ (top[i].count = top[j].count /\ first[i] < first[j])
            /\ \A t \in tags \ listed_tags :
                  LET c == count_of(t)
                      f == first_of(t)
                  IN  \A i \in 1..Len(top) :
                          \/ top[i].count > c
                          \/ (top[i].count = c /\ first[i] < f)

\* a report over more than 50 distinct hashtags, one of them seen twice and
\* the others once each
C4_Witness ==
    /\ has_report
    /\ result.unique_hashtags > 50
    /\ Len(result.top_hashtags) = 50
    /\ result.top_hashtags[1].count = 2
    /\ result.top_hashtags[2].count = 1

\* the host the URL entry names: empty when the entry has no URL or the URL
\* does not parse, else the netloc without a leading "www."
host_without_www(u) ==
    LET expanded == get(u, "expanded_url", get(u, "url", <<>>))
        host == netloc_of(expanded)
    IN  IF expanded = <<>> \/ urlparse_raises(expanded) THEN <<>>
        ELSE IF startswith(host, S_WWW) THEN SubSeq(host, 5, Len(host))
        ELSE host

\* the host is non-empty and is neither twitter.com nor t.co
is_outbound(u) ==
    LET host == host_without_www(u)
    IN  host # <<>> /\ host # S_TWITTER_COM /\ host # S_T_CO

\* the URL entries of the records processed so far: <<record, position>>
UrlOccurrences ==
    UNION {{<<k, j>> : j \in 1..Len(entity_list(tweets[k].tweet, "urls"))} :
             k \in 1..Len(records)}

url_at(o) == entity_list(tweets[o[1]].tweet, "urls")[o[2]]

\* C5: each URL of a record is counted, under its host without a leading
\* "www.", in the global and per-year domain counters and in the record's
\* URL count if and only if that host is non-empty and is neither
\* twitter.com nor t.co.
C5_DomainCountedIffOutbound ==
    LET outbound == {o \in UrlOccurrences : is_outbound(url_at(o))}
        hosts == {host_without_www(url_at(o)) : o \in outbound}
        by_year == {<<y, j>> \in UNION {{<<y, j>> : j \in 1..Len(domains_by_year[y])} :
                                          y \in DOMAIN domains_by_year} : TRUE}
    IN  /\ \A k \in 1..Len(records) :
              records[k].url_count = Cardinality({o \in outbound : o[1] = k})
        /\ {all_domains[j].key : j \in 1..Len(all_domains)} = hosts
        /\ \A j \in 1..Len(all_domains) :
              all_domains[j].count =
                  Cardinality({o \in outbound :
                                 host_without_www(url_at(o)) = all_domains[j].key})
        /\ {domains_by_year[p[1]][p[2]].key : p \in by_year} = hosts

\* loading succeeded and the array of tweets.js is empty
empty_array_loaded ==
    data_dir # "" /\ has_bracket(fs) /\ json_loads_ok(fs) /\ fs.value = <<>>

\* C6: a run over a records file whose array is empty completes and yields
\* a report with total_tweets = 0, zero totals and every top-N list empty.
C6_EmptyArrayReports ==
    (pc = "done" /\ empty_array_loaded) =>
        /\ exit_code = 0
        /\ exc = ""
        /\ Len(output_file) = 1
        /\ output_file[1].data.total_tweets = 0
        /\ output_file[1].data.original_tweets = 0
        /\ output_file[1].data.retweets = 0
        /\ output_file[1].data.top_hashtags = <<>>
        /\ output_file[1].data.top_mentions = <<>>
        /\ output_file[1].data.top_domains = <<>>
        /\ output_file[1].data.top_tweets_by_favorites = <<>>
        /\ output_file[1].data.top_tweets_by_retweets = <<>>

\* the order of the characters of a date string
char_rank(c) == IF c = "-" THEN 0 ELSE digit_value(c) + 1

\* a <= b for strings of one length, as str compares them
str_le(a, b) ==
    \/ a = b
    \/ \E p \in 1..Len(a) :
          /\ char_rank(a[p]) < char_rank(b[p])
          /\ \A q \in 1..(p - 1) : a[q] = b[q]

\* C7: date_range.start is the minimum and date_range.end the maximum of
\* the record dates: every record's date string d has
\* date_range.start <= d <= date_range.end.
C7_DateRangeBoundsDates ==
    has_report =>
        \A k \in 1..Len(records) :
            /\ str_le(result.date_range.start, records[k].date)
            /\ str_le(records[k].date, result.date_range.end)

\* the place of record k in a descending order by a field that keeps equal
\* values in input order
rank_by(field, k) ==
    1 + Cardinality({j \in 1..Len(records) :
                       \/ records[j][field] > records[k][field]
                       \/ (records[j][field] = records[k][field] /\ j < k)})

ranked_prefix(top, field) ==
    /\ Len(top) <= 20
    /\ Len(top) = Min(20, Len(records))
    /\ \A k \in 1..Len(records) :
          rank_by(field, k) <= 20 =>
              top[rank_by(field, k)] =
                  [date |-> records[k].date, text |-> records[k].text,
                   favorites |-> records[k].favorites,
                   retweets |-> records[k].retweets]

\* C8: top_tweets_by_favorites and top_tweets_by_retweets are the first 20
\* elements of a stable descending sort of all record projections by
\* favorites, respectively retweets.
C8_TopTweets ==
    has_report =>
        /\ ranked_prefix(result.top_tweets_by_favorites, "favorites")
        /\ ranked_prefix(result.top_tweets_by_retweets, "retweets")

\* a report over more than 20 records in which the 20 kept tie with one
\* another and the last kept ties with one left out
C8_Witness ==
    /\ has_report
    /\ Len(records) > 20
    /\ Len(result.top_tweets_by_favorites) = 20
    /\ result.top_tweets_by_retweets[1].retweets = result.top_tweets_by_retweets[2].retweets
    /\ \E k \in 1..Len(records) :
          /\ rank_by("retweets", k) > 20
          /\ records[k].retweets = result.top_tweets_by_retweets[20].retweets

\* the run took the zip branch of main()
zip_branch == Len(argv) >= 2 /\ fs.isfile /\ endswith(argv[2], S_ZIP)

\* C9: given a zip archive, the temporary extraction directory is deleted
\* on every exit path: it exists only while control is inside the with
\* block, and no run ends with it still existing.
C9_TempDirRemoved ==
    /\ pc = "done" => ~tmp
    /\ tmp => (in_with /\ zip_branch)
    /\ pc = "write" => ~tmp

\* a zip run that ended on a bad timestamp after aggregating a record
C9_Witness ==
    /\ pc = "done"
    /\ zip_branch
    /\ exc = "ValueError"
    /\ Len(records) >= 1

\* the records file can be located from the command line
locatable ==
    /\ Len(argv) >= 2
    /\ \/ zip_branch /\ fs.zip_ok /\ fs.where # "none"
       \/ ~zip_branch /\ fs.isdir /\ fs.where \in {".", "data"}

\* the text of the records file holds a "[" and parses from it
loadable == (\A p \in 1..Len(fs.head) : fs.head[p] # "[") /\ fs.array = "valid"

\* every record's created_at has the expected format
all_dated == \A k \in 1..Len(fs.value) : strptime_ok(fs.value[k].tweet.created_at)

\* C10: a run that fails (invalid path, records file not located, missing
\* "[" or malformed JSON, a created_at of another format) ends with a
\* non-zero exit and the output file never opened; the output file is
\* written only after locating, loading and aggregating all succeeded; a URL
\* that fails to parse is left out and the run goes on.
C10_FailuresAbort ==
    /\ (pc = "done" /\ ~(locatable /\ loadable /\ all_dated)) =>
          (exit_code # 0 /\ output_file = <<>>)
    /\ (pc = "done" /\ exc # "") => (exit_code # 0 /\ output_file = <<>>)
    /\ pc # "done" => output_file = <<>>
    /\ output_file # <<>> =>
          /\ locatable /\ loadable /\ all_dated
          /\ tweets = fs.value
          /\ Len(records) = Len(tweets)
          /\ exit_code = 0
    /\ (pc = "done" /\ locatable /\ loadable /\ all_dated /\ fs.value # <<>>) =>
          (exit_code = 0 /\ output_file # <<>>)
    /\ \A k \in 1..Len(records) :
          records[k].url_count <=
              Cardinality({j \in 1..Len(entity_list(tweets[k].tweet, "urls")) :
                  LET u == entity_list(tweets[k].tweet, "urls")[j]
                      expanded == get(u, "expanded_url", get(u, "url", <<>>))
                  IN  ~urlparse_raises(expanded)})

\* a run that wrote its report over a record with a URL that does not
\* parse beside one that does
C10_Witness ==
    /\ pc = "done"
    /\ exit_code = 0
    /\ output_file # <<>>
    /\ \E k \in 1..Len(tweets) :
          /\ records[k].url_count = 1
          /\ \E j \in 1..Len(entity_list(tweets[k].tweet, "urls")) :
                urlparse_raises(get(entity_list(tweets[k].tweet, "urls")[j],
                                    "expanded_url", <<>>))

====
